---- MODULE Spec2Model ----
(***************************************************************************)
(* SofReader (src/src/sof_read.py): one scoped database session            *)
(* (`with SofReader(path) as cdb: body`), the generic record scanner       *)
(* injected by the read_sof_dtype decorator (single-key and enumeration    *)
(* mode), the entity decoders and the external access primitives           *)
(* sof_cdb_init / status / kexist / get / close.                           *)
(*                                                                         *)
(* The external database is the environment: which record families hold    *)
(* data is fixed when the session starts (dbData), what a read delivers    *)
(* (status, buffer content, length written back) is chosen at each call.   *)
(***************************************************************************)
EXTENDS Integers, Sequences, FiniteSets, TLC

-----------------------------------------------------------------------------
(* Bounds of the environment *)

\* a well-behaved database answers at most this many reads with status < 2
MaxRecords == 1
\* at most this many record families of the database hold data
MaxFamilies == 2
\* the bits of precision of a float (CPython keeps 53)
Precision == 9

-----------------------------------------------------------------------------
(* Values *)

\* Python None (sof_keys[1] of an enumerated family, position not given)
NoneVal == -1
\* the external read primitive never reports the end of a family
Endless == -2

\* sizeof(sof_dtype): the fixed record size handed to every read
sizeof_dtype == 8
\* a length the external primitive may write back through byref(record_len)
ShortLen == 4
\* range(9999): the candidate secondary keys of enumeration mode
KwlRange == 9999

\* declared ids a raw record may carry (m_nr / m_id)
RecordIds == {-1, 0, 1, 3}
\* values of the attribute field of a node, element or stress record
FieldVals == {0, 2}
\* values of the group divisor m_igdiv of the System record
GdivVals == {-2, 0, 2}
\* content of a ctypes buffer: csyst has no id field (nr stays 0, val is m_igdiv)
SystemRecords == [nr : {0}, val : GdivVals]
EntityRecords == [nr : RecordIds, val : FieldVals]
\* a freshly created ctypes structure is zero-filled
ZeroRecord == [nr |-> 0, val |-> 0]

\* status codes returned by sof_cdb_get
ReadStatus == 0..3
\* results of sof_cdb_kexist for a family that holds no data
NoDataStates == {0, 1, 3}
\* results of sof_cdb_init
Handles == {-1, 0, 1}

\* the paths a client may pass: the file exists or not, and its suffix
Paths == [exists : BOOLEAN, suffix : {".cdb", ".json"}]

\* {} : the empty dictionary
EmptyDict == <<>>

-----------------------------------------------------------------------------
(* The reader methods: read_sof_dtype(record_identifier, sof_dtype,        *)
(* sof_keys, position) applied to a decoder                                *)

Schema(rid, major, minor, position, kind) ==
    [rid |-> rid, major |-> major, minor |-> minor,
     position |-> position, kind |-> kind]

read_system        == Schema("system", 10, 0, NoneVal, "system")
read_nodes         == Schema("nodes", 20, 0, NoneVal, "plain")
read_beams         == Schema("beams", 100, 0, NoneVal, "element")
read_beam_sections == Schema("beam_sections", 100, 0, 1, "plain")
read_trusses       == Schema("trusses", 150, 0, NoneVal, "element")
read_cables        == Schema("cables", 160, 0, NoneVal, "element")
read_springs       == Schema("springs", 170, 0, NoneVal, "element")
read_quads         == Schema("quads", 200, 0, NoneVal, "element")
read_brics         == Schema("brics", 300, 0, NoneVal, "element")
read_bric_stresses == Schema("bric_stresses", 310, NoneVal, NoneVal, "plain")

\* SofReader.read_geometry
read_geometry ==
    << read_system, read_nodes, read_beams, read_trusses, read_cables,
       read_springs, read_quads, read_brics >>

\* secondary keys of the stress family (310, *) that may hold data
StressKwl == {0, 9998, 9999}

\* a position argument other than those of the declared readers (None and 1)
Positions == {2}

\* a scanner built by the decorator with an arbitrary position argument
custom_reader(minor, position) ==
    IF minor = NoneVal
    THEN Schema("custom_enum", 310, minor, position, "plain")
    ELSE Schema("custom", 20, minor, position, "plain")

\* the bodies run inside the scoped session: import_sof_cdb (read_cdb of the
\* json export runs its prefix read_geometry), one reader method alone
Programs ==
    { read_geometry \o << read_bric_stresses >>,
      << read_beam_sections >> }
    \cup { << custom_reader(m, p) >> : m \in {0, NoneVal}, p \in Positions }

\* the key pairs a body checks
KeysOf(program) ==
    UNION { IF program[i].minor = NoneVal
            THEN { << program[i].major, k >> : k \in StressKwl }
            ELSE { << program[i].major, program[i].minor >> } : i \in 1..Len(program) }

-----------------------------------------------------------------------------
(* State *)

VARIABLES
    pc,          \* where the client is: start, body, enum, loop, exit, done, raised
    exc,         \* the exception in flight ("none" when there is none)
    index,       \* self.index: the handle returned by sof_cdb_init
    data,        \* self.data: record identifier -> family mapping
    todo,        \* the reader methods the body has still to run (head = current)
    dtype_dict,  \* the scan's result under construction
    record_dict, \* enumeration mode: the sub-mapping of the current secondary key
    rec_kwl,     \* enumeration mode: the for-loop variable
    error_flag,  \* status returned by the previous read
    pos,         \* single-key mode: the position counter
    record_len,  \* the buffer-length counter
    buf,         \* the ctypes buffer of the current schema's sof_dtype
    cdb,         \* self.cdb: the path given to the constructor
    dbData,      \* environment: the key pairs whose family holds data
    more,        \* environment: reads that may still be answered with status < 2
    calls,       \* history: the external primitives called so far
    closeCalls,  \* history: number of calls of the close primitive
    afterClose,  \* history: the external primitives called after close
    diag,        \* history: the diagnostic printed by _validate_cdb
    retTwo,      \* history: key pairs for which a key_exists call returned 2
    retOther,    \* history: key pairs for which key_exists returned another state
    returned,    \* history: record identifiers whose scan returned at the key check
    readKeys,    \* history: key pairs for which a read call was issued
    last_get,    \* history: the arguments of the latest read call of the read loop
    sawSkip,     \* history: a decoder returned None during the current scan
    mergedAfterSkip, \* history: a record was merged after such a None
    arg,         \* the argument a function is called with outside a session
    ret,         \* what that call returned or raised
    cnode,       \* the module-level buffer of the node schema, one per process
    readers      \* the sessions that scan their nodes side by side

vars == << pc, exc, index, data, todo, dtype_dict, record_dict, rec_kwl,
           error_flag, pos, record_len, buf, cdb, dbData, more, calls,
           closeCalls, afterClose, diag, retTwo, retOther, returned, readKeys, last_get,
           sawSkip, mergedAfterSkip, arg, ret, cnode, readers >>

scanVars == << dtype_dict, record_dict, rec_kwl, error_flag, pos, record_len, buf >>
envVars  == << cdb, dbData, more >>
histVars == << calls, closeCalls, afterClose, diag, retTwo, retOther, returned,
               readKeys, last_get, sawSkip, mergedAfterSkip >>
parVars  == << cnode, readers >>
callVars == << arg, ret, parVars >>

\* no function is being called outside the session
NoCall == [fn |-> "none"]

\* no read call has been issued yet by the current read loop; seq is 1 for
\* the first read of the loop and alternates between 2 and 3 afterwards
NoGet == [seq |-> 0, major |-> 0, minor |-> 0, pos |-> 0, len |-> 0]

\* SofReader.__init__ ; the database and the behaviour of its read primitive
Init ==
    /\ pc = "start"
    /\ exc = "none"
    /\ index = 0
    /\ data = EmptyDict
    /\ todo \in Programs
    /\ dtype_dict = EmptyDict
    /\ record_dict = EmptyDict
    /\ rec_kwl = 0
    /\ error_flag = 0
    /\ pos = 1
    /\ record_len = sizeof_dtype
    /\ buf = ZeroRecord
    /\ cdb \in Paths
    /\ dbData \in { S \in SUBSET KeysOf(todo) : Cardinality(S) <= MaxFamilies }
    /\ more \in (0..MaxRecords) \cup {Endless}
    /\ calls = {}
    /\ closeCalls = 0
    /\ afterClose = {}
    /\ diag = "none"
    /\ retTwo = {}
    /\ retOther = {}
    /\ returned = {}
    /\ readKeys = {}
    /\ last_get = NoGet
    /\ sawSkip = FALSE
    /\ mergedAfterSkip = FALSE
    /\ arg = NoCall
    /\ ret = NoCall
    /\ cnode = ZeroRecord
    /\ readers = << >>

-----------------------------------------------------------------------------
(* Helpers *)

\* variant: an entry the dictionary already holds is kept
Update_keeps_first(d, other) ==
    [k \in (DOMAIN d) \cup (DOMAIN other) |->
        IF k \in DOMAIN d THEN d[k] ELSE other[k]]

\* dict.update(other)
Update(d, other) ==
    [k \in (DOMAIN d) \cup (DOMAIN other) |->
        IF k \in DOMAIN other THEN other[k] ELSE d[k]]

\* variant: the assignment replaces the whole dictionary
SetItem_alone(d, key, value) ==
    [k \in {key} |-> value]

\* d[key] = value
SetItem(d, key, value) ==
    [k \in (DOMAIN d) \cup {key} |-> IF k = key THEN value ELSE d[k]]

Abs(x) == IF x < 0 THEN -x ELSE x

\* int(a / b) for b # 0: the quotient truncated towards zero
TruncDiv(a, b) ==
    IF (a < 0) = (b < 0) THEN Abs(a) \div Abs(b) ELSE -(Abs(a) \div Abs(b))

\* variant: only the existence of the file is checked
validate_file_exists_only(path) == path.exists

\* SofReader._validate_file
validate_file(path) == path.exists /\ path.suffix = ".cdb"

\* variant: a zero handle is taken for an open database
validate_cdb_accepts_zero(idx) == idx >= 0

\* SofReader._validate_cdb
validate_cdb(idx) == idx > 0

cdb_diagnostic(idx) ==
    IF idx < 0 THEN "error_code"
    ELSE IF idx = 0 THEN "invalid_database"
    ELSE "opened"

\* variant: a family that exists but holds no data is read as well
validate_cdb_keys_nonzero(state) == state >= 1

\* SofReader._validate_cdb_keys on the state the key_exists primitive returns
validate_cdb_keys(state) == state = 2

\* the states sof_cdb_kexist may return for a key pair
kexist(key) == IF key \in dbData THEN {2} ELSE NoDataStates

\* variant: the loop goes on after status 2
loop_continues_through_2(flag) == flag <= 2

\* `while error_flag.value < 2`
loop_continues(flag) == flag < 2

\* pos = c_int(position if position != None else 1)
initial_pos(position) == IF position # NoneVal THEN position ELSE 1

\* pos.value = 1 after a read
reset_pos(p) == 1

\* variant: the length written back by the primitive is kept
reset_len_forgotten(len) == len

\* record_len.value = sizeof(sof_dtype) after a read
reset_len(len) == sizeof_dtype

\* SofReader._get_group raises ZeroDivisionError
group_raises(d) ==
    /\ "system" \in DOMAIN d
    /\ DOMAIN d["system"] # {}
    /\ d["system"].gdiv = 0

\* floor(a / b) for b # 0
FloorDiv(a, b) == IF b > 0 THEN a \div b ELSE (-a) \div (-b)

\* variant: the quotient is rounded down (integer division)
get_group_floor(elem_nr, d) ==
    IF ~("system" \in DOMAIN d) \/ DOMAIN d["system"] = {} THEN 0
    ELSE FloorDiv(elem_nr, d["system"].gdiv)

\* SofReader._get_group
get_group(elem_nr, d) ==
    IF ~("system" \in DOMAIN d) \/ DOMAIN d["system"] = {} THEN 0
    ELSE TruncDiv(elem_nr, d["system"].gdiv)

\* variant: only negative ids are skipped
returns_none_negative_only(s, rec) == s.kind # "system" /\ rec.nr < 0

\* the decoder returns None: `if m_nr <= 0: return None`
returns_none(s, rec) == s.kind # "system" /\ rec.nr <= 0

\* the decoder raises
decoder_raises(s, rec, d) ==
    s.kind = "element" /\ ~returns_none(s, rec) /\ group_raises(d)

\* the dictionary the decoder returns (store_record)
store_record(s, rec, d) ==
    IF s.kind = "system" THEN [gdiv |-> rec.val]
    ELSE IF s.kind = "element"
         THEN (rec.nr :> [group |-> get_group(rec.nr, d), val |-> rec.val])
         ELSE (rec.nr :> [val |-> rec.val])

\* what the read primitive may write into the buffer of the schema's sof_dtype
Records(s) == IF s.kind = "system" THEN SystemRecords ELSE EntityRecords

\* the statuses the read primitive may return
read_statuses ==
    IF more = Endless THEN {0, 1}
    ELSE IF more > 0 THEN ReadStatus
    ELSE {2, 3}

\* variant: __exit__ only validates the status
exit_calls_without_close == << "status" >>

\* variant: __exit__ closes again after validating the status
exit_calls_close_twice == << "close", "status", "close" >>

\* SofReader.__exit__: the external primitives it calls, in order
exit_calls == << "close", "status" >>

-----------------------------------------------------------------------------
(* Actions *)

\* the external primitives `names` are called
Issue(names) ==
    /\ calls' = calls \cup names
    /\ afterClose' = IF closeCalls > 0 THEN afterClose \cup names ELSE afterClose

\* the result `state` of a key_exists call for `key` is recorded
KeyChecked(key, state) ==
    /\ retTwo' = IF state = 2 THEN retTwo \cup {key} ELSE retTwo
    /\ retOther' = IF state # 2 THEN retOther \cup {key} ELSE retOther

\* the part of exit_calls that follows its first "close"
AfterFirstClose(seq) ==
    { seq[j] : j \in { j \in 1..Len(seq) : \E i \in 1..(j-1) : seq[i] = "close" } }

\* SofReader.__enter__
Enter ==
    /\ pc = "start"
    /\ IF ~validate_file(cdb)
       THEN \* _validate_file failed: ValueError before any external call
            /\ pc' = "raised"
            /\ exc' = "invalid_input"
            /\ UNCHANGED << index, calls, afterClose, diag >>
       ELSE \* _get_cdb_functions, _validate_cdb, get_status, _validate_cdb_status
            \E h \in Handles :
              /\ index' = h
              /\ diag' = cdb_diagnostic(h)
              /\ IF validate_cdb(h)
                 THEN /\ pc' = "body"
                      /\ exc' = "none"
                      /\ Issue({"load", "init", "status"})
                 ELSE /\ pc' = "raised"
                      /\ exc' = "open_failed"
                      /\ Issue({"load", "init"})
    /\ UNCHANGED << data, todo, closeCalls, retTwo, retOther, returned,
                    readKeys, last_get, sawSkip, mergedAfterSkip >>
    /\ UNCHANGED scanVars
    /\ UNCHANGED envVars
    /\ UNCHANGED callVars

\* set up error, position and record length counters
SetUpCounters(s) ==
    /\ error_flag' = 0
    /\ pos' = IF s.minor # NoneVal THEN initial_pos(s.position) ELSE 1
    /\ record_len' = sizeof_dtype
    /\ last_get' = NoGet

\* the scanner returns or is left by an exception: its local variables are
\* gone, no buffer is in use and the history of the read loop is closed
LeaveScan ==
    /\ dtype_dict' = EmptyDict
    /\ record_dict' = EmptyDict
    /\ rec_kwl' = 0
    /\ error_flag' = 0
    /\ pos' = 1
    /\ record_len' = sizeof_dtype
    /\ buf' = ZeroRecord
    /\ last_get' = NoGet
    /\ sawSkip' = FALSE
    /\ mergedAfterSkip' = FALSE

\* single_record up to its while loop: validate the keys, set up the counters
BeginSingle ==
    /\ pc = "body"
    /\ todo # << >>
    /\ Head(todo).minor # NoneVal
    /\ LET s   == Head(todo)
           key == << s.major, s.minor >>
       IN \E state \in kexist(key) :
            /\ Issue({"kexist"})
            /\ KeyChecked(key, state)
            /\ IF validate_cdb_keys(state)
               THEN /\ SetUpCounters(s)
                    /\ pc' = "loop"
                    /\ UNCHANGED << todo, returned >>
               ELSE \* `return`: nothing is stored under the record identifier
                    /\ pc' = "body"
                    /\ todo' = Tail(todo)
                    /\ returned' = returned \cup {s.rid}
                    /\ UNCHANGED << error_flag, pos, record_len, last_get >>
    /\ UNCHANGED << exc, index, data, dtype_dict, record_dict, rec_kwl, buf,
                    closeCalls, diag, readKeys, sawSkip, mergedAfterSkip >>
    /\ UNCHANGED envVars
    /\ UNCHANGED callVars

\* multiple_records up to its for loop
BeginMultiple ==
    /\ pc = "body"
    /\ todo # << >>
    /\ Head(todo).minor = NoneVal
    /\ pc' = "enum"
    /\ rec_kwl' = 0
    /\ UNCHANGED << exc, index, data, todo, dtype_dict, record_dict,
                    error_flag, pos, record_len, buf >>
    /\ UNCHANGED envVars
    /\ UNCHANGED callVars
    /\ UNCHANGED histVars

\* the candidates of `for rec_kwl in range(9999)` not yet visited whose family
\* the database knows; every other key is absent (key_exists 0) and skipped
Candidates(major) ==
    { k \in StressKwl : k >= rec_kwl /\ k < KwlRange }

Min(S) == CHOOSE x \in S : \A y \in S : x <= y

\* multiple_records: the for loop advances to the next candidate the database
\* knows and validates it (silently); the absent keys before it only cost a
\* key_exists call each
NextKwl ==
    /\ pc = "enum"
    /\ Candidates(Head(todo).major) # {}
    /\ ~validate_cdb_keys(0)
    /\ LET s   == Head(todo)
           k   == Min(Candidates(s.major))
           key == << s.major, k >>
       IN \E state \in kexist(key) :
            /\ Issue({"kexist"})
            /\ KeyChecked(key, state)
            /\ IF validate_cdb_keys(state)
               THEN /\ SetUpCounters(s)
                    /\ rec_kwl' = k
                    /\ record_dict' = EmptyDict
                    /\ sawSkip' = FALSE
                    /\ mergedAfterSkip' = FALSE
                    /\ pc' = "loop"
               ELSE \* `continue`
                    /\ rec_kwl' = k + 1
                    /\ pc' = "enum"
                    /\ UNCHANGED << error_flag, pos, record_len, record_dict,
                                    last_get, sawSkip, mergedAfterSkip >>
    /\ UNCHANGED << exc, index, data, todo, dtype_dict, buf, closeCalls,
                    diag, returned, readKeys >>
    /\ UNCHANGED envVars
    /\ UNCHANGED callVars

\* multiple_records: the for loop is exhausted, `cdb.data[record_identifier] = dtype_dict`
PublishMultiple ==
    /\ pc = "enum"
    /\ Candidates(Head(todo).major) = {}
    /\ ~validate_cdb_keys(0)
    /\ Issue({"kexist"})
    /\ data' = SetItem(data, Head(todo).rid, dtype_dict)
    /\ todo' = Tail(todo)
    /\ pc' = "body"
    /\ LeaveScan
    /\ UNCHANGED << exc, index, closeCalls, diag, retTwo, retOther, returned,
                    readKeys >>
    /\ UNCHANGED envVars
    /\ UNCHANGED callVars

\* one iteration of `while error_flag.value < 2`: read, decode, reset, merge
ReadRecord ==
    /\ pc = "loop"
    /\ loop_continues(error_flag)
    /\ LET s      == Head(todo)
           single == s.minor # NoneVal
           minor  == IF single THEN s.minor ELSE rec_kwl
           acc    == IF single THEN dtype_dict ELSE record_dict
       IN \E status \in read_statuses, rec \in Records(s),
             written \in {sizeof_dtype, ShortLen} :
            /\ Issue({"get"})
            /\ readKeys' = readKeys \cup { << s.major, minor >> }
            /\ more' = IF more > 0 /\ status < 2 THEN more - 1 ELSE more
            /\ IF decoder_raises(s, rec, data)
               THEN \* the exception leaves the scan and the body
                    /\ pc' = "exit"
                    /\ exc' = "decode"
                    /\ LeaveScan
               ELSE /\ pc' = "loop"
                    /\ exc' = "none"
                    /\ error_flag' = status
                    /\ buf' = rec
                    /\ UNCHANGED rec_kwl
                    /\ last_get' = [seq   |-> IF last_get.seq = 0 THEN 1
                                                      ELSE IF last_get.seq = 2 THEN 3 ELSE 2,
                                    major |-> s.major, minor |-> minor,
                                    pos   |-> IF single THEN pos ELSE 1,
                                    len   |-> record_len]
                    /\ pos' = IF single THEN reset_pos(pos) ELSE pos
                    /\ record_len' = reset_len(written)
                    /\ IF returns_none(s, rec)
                       THEN /\ sawSkip' = TRUE
                            /\ UNCHANGED << dtype_dict, record_dict,
                                            mergedAfterSkip >>
                       ELSE /\ mergedAfterSkip' = sawSkip
                            /\ UNCHANGED sawSkip
                            /\ IF single
                               THEN /\ dtype_dict' = Update(dtype_dict, store_record(s, rec, data))
                                    /\ UNCHANGED record_dict
                               ELSE /\ record_dict' = Update(record_dict, store_record(s, rec, data))
                                    /\ UNCHANGED dtype_dict
    /\ UNCHANGED << index, data, todo, cdb, dbData, closeCalls, diag, retTwo,
                    retOther, returned >>
    /\ UNCHANGED callVars

\* single_record after its loop: `cdb.data[record_identifier] = dtype_dict`
PublishSingle ==
    /\ pc = "loop"
    /\ ~loop_continues(error_flag)
    /\ Head(todo).minor # NoneVal
    /\ data' = SetItem(data, Head(todo).rid, dtype_dict)
    /\ todo' = Tail(todo)
    /\ pc' = "body"
    /\ LeaveScan
    /\ UNCHANGED << exc, index, calls, closeCalls, afterClose, diag, retTwo,
                    retOther, returned, readKeys >>
    /\ UNCHANGED envVars
    /\ UNCHANGED callVars

\* multiple_records after the inner loop: `dtype_dict[rec_kwl] = record_dict`
StoreKwl ==
    /\ pc = "loop"
    /\ ~loop_continues(error_flag)
    /\ Head(todo).minor = NoneVal
    /\ dtype_dict' = SetItem(dtype_dict, rec_kwl, record_dict)
    /\ rec_kwl' = rec_kwl + 1
    /\ pc' = "enum"
    /\ UNCHANGED << exc, index, data, todo, record_dict, error_flag, pos,
                    record_len, buf >>
    /\ UNCHANGED envVars
    /\ UNCHANGED callVars
    /\ UNCHANGED histVars

\* the body of the with statement has run to its end (`cdb_dict = cdb.data`)
BodyDone ==
    /\ pc = "body"
    /\ todo = << >>
    /\ pc' = "exit"
    /\ UNCHANGED << exc, index, data, todo >>
    /\ UNCHANGED scanVars
    /\ UNCHANGED envVars
    /\ UNCHANGED callVars
    /\ UNCHANGED histVars

\* the body is left early by an exception raised from outside the scanner
Abort ==
    /\ pc \in {"body", "enum", "loop"}
    /\ pc' = "exit"
    /\ exc' = "abort"
    /\ LeaveScan
    /\ UNCHANGED << index, data, todo, calls, closeCalls, afterClose, diag,
                    retTwo, retOther, returned, readKeys >>
    /\ UNCHANGED envVars
    /\ UNCHANGED callVars

\* SofReader.__exit__
Exit ==
    /\ pc = "exit"
    /\ closeCalls' = closeCalls + Cardinality({ i \in 1..Len(exit_calls) : exit_calls[i] = "close" })
    /\ calls' = calls \cup { exit_calls[i] : i \in 1..Len(exit_calls) }
    /\ afterClose' = IF closeCalls > 0
                     THEN afterClose \cup { exit_calls[i] : i \in 1..Len(exit_calls) }
                     ELSE afterClose \cup AfterFirstClose(exit_calls)
    /\ pc' = IF exc = "none" THEN "done" ELSE "raised"
    /\ UNCHANGED << exc, index, data, todo, diag, retTwo, retOther, returned,
                    readKeys, last_get, sawSkip, mergedAfterSkip >>
    /\ UNCHANGED scanVars
    /\ UNCHANGED envVars
    /\ UNCHANGED callVars

Next ==
    \/ Enter
    \/ BeginSingle
    \/ BeginMultiple
    \/ NextKwl
    \/ PublishMultiple
    \/ ReadRecord
    \/ PublishSingle
    \/ StoreKwl
    \/ BodyDone
    \/ Abort
    \/ Exit

Spec == Init /\ [][Next]_vars

\* the interpreter keeps running the client: some step is taken whenever one is possible
FairSpec == Spec /\ WF_vars(Next)

-----------------------------------------------------------------------------
(* Python float arithmetic: binary floating point, every operation rounded  *)
(* to the nearest representable value, ties to even. A float is m * 2^e     *)
(* with m odd (or m = e = 0) and |m| < 2^Precision. Python's floats have 53 *)
(* bits of precision; the model keeps Precision bits and an unbounded       *)
(* exponent.                                                                *)

Float(m, e) == [m |-> m, e |-> e]
Zero == Float(0, 0)

\* the number of binary digits of n >= 0
BitLen(n) == Cardinality({ k \in 0..30 : 2^k <= n })

\* m * 2^e with the trailing zero bits of m moved into the exponent
Canon(m, e) ==
    IF m = 0 THEN Zero
    ELSE LET z == Cardinality({ k \in 1..30 : m % (2^k) = 0 })
         IN Float(m \div (2^z), e + z)

\* m * 2^e rounded to Precision bits, ties to even
Round(m, e) ==
    LET a == Abs(m)
        k == BitLen(a) - Precision
    IN IF k <= 0 THEN Canon(m, e)
       ELSE LET q    == a \div (2^k)
                r    == a % (2^k)
                half == 2^(k - 1)
                mag  == IF r > half \/ (r = half /\ q % 2 = 1) THEN q + 1 ELSE q
            IN Canon(IF m < 0 THEN -mag ELSE mag, e + k)

\* (n / d) * 2^e rounded, for integers n and d # 0: the quotient is taken
\* to Precision + 2 bits and a sticky bit records a remainder
RoundQuot(n, d, e) ==
    IF n = 0 THEN Zero
    ELSE LET a    == Abs(n)
             b    == Abs(d)
             k    == Precision + 2 + BitLen(b) - BitLen(a)
             s    == IF k > 0 THEN k ELSE 0
             big  == a * (2^s)
             q    == big \div b
             st   == IF big % b = 0 THEN 0 ELSE 1
             mag  == 2 * q + st
         IN Round(IF (n < 0) = (d < 0) THEN mag ELSE -mag, e - s - 1)

\* a literal such as 1E-5 or 0.001, and an int operand
FromRat(n, d) == RoundQuot(n, d, 0)
FromInt(n) == Round(n, 0)

\* the position of the leading bit
Top(x) == BitLen(Abs(x.m)) + x.e

FNeg(x) == Float(-x.m, x.e)
FAbs(x) == Float(Abs(x.m), x.e)

\* x + y: an operand below a quarter of the other's last place is absorbed
FAdd(x, y) ==
    IF x.m = 0 THEN y
    ELSE IF y.m = 0 THEN x
    ELSE IF Top(x) - Top(y) > Precision + 2 THEN x
    ELSE IF Top(y) - Top(x) > Precision + 2 THEN y
    ELSE LET e == IF x.e < y.e THEN x.e ELSE y.e
         IN Round(x.m * (2^(x.e - e)) + y.m * (2^(y.e - e)), e)

FSub(x, y) == FAdd(x, FNeg(y))
FMul(x, y) == Round(x.m * y.m, x.e + y.e)
FDiv(x, y) == RoundQuot(x.m, y.m, x.e - y.e)

\* x ** n for a float x and n in {2, 3}
FPow(x, n) == Round(x.m ^ n, x.e * n)

\* x < y
FLess(x, y) == FSub(x, y).m < 0

\* floor(sqrt(n)) for n >= 0
RECURSIVE Isqrt(_)
Isqrt(n) ==
    IF n < 2 THEN n
    ELSE LET s == 2 * Isqrt(n \div 4)
         IN IF (s + 1) * (s + 1) <= n THEN s + 1 ELSE s

\* math.sqrt(x) for x >= 0
FSqrt(x) ==
    IF x.m = 0 THEN Zero
    ELSE LET k0  == 2 * Precision + 3 - BitLen(x.m)
             k   == IF (x.e - k0) % 2 = 0 THEN k0 ELSE k0 + 1
             big == x.m * (2^k)
             r   == Isqrt(big)
             st  == IF r * r = big THEN 0 ELSE 1
         IN Round(2 * r + st, ((x.e - k) \div 2) - 1)

-----------------------------------------------------------------------------
(* misc.py: the principal stress solver                                     *)

\* the default of solve_newton's max_iter
max_iter == 100

\* stress invariants of the tensor t
InvariantA(t) == FAdd(FAdd(t.sx, t.sy), t.sz)

InvariantB(t) ==
    FSub(FSub(FSub(FAdd(FAdd(FMul(t.sx, t.sy), FMul(t.sx, t.sz)),
                        FMul(t.sy, t.sz)),
                   FPow(t.txy, 2)),
              FPow(t.txz, 2)),
         FPow(t.tyz, 2))

InvariantC(t) ==
    FSub(FSub(FSub(FAdd(FMul(FMul(t.sx, t.sy), t.sz),
                        FMul(FMul(FMul(FromInt(2), t.txy), t.txz), t.tyz)),
                   FMul(t.sx, FPow(t.tyz, 2))),
              FMul(t.sy, FPow(t.txz, 2))),
         FMul(t.sz, FPow(t.txy, 2)))

Invariants(t) == [A |-> InvariantA(t), B |-> InvariantB(t), C |-> InvariantC(t)]

\* lambda p: p**3 - A*(p**2) + B*p - C
sigma_iv(c, p) ==
    FSub(FAdd(FSub(FPow(p, 3), FMul(c.A, FPow(p, 2))), FMul(c.B, p)), c.C)

\* lambda p: 3*(p**2) - 2*A*p + B
dsigma_iv(c, p) ==
    FAdd(FSub(FMul(FromInt(3), FPow(p, 2)), FMul(FMul(FromInt(2), c.A), p)), c.B)

\* variant: a zero derivative leaves the iterate where it is
newton_iteration_unmoved(c, xn, epsilon) ==
    LET fxn == sigma_iv(c, xn)
    IN IF FLess(FAbs(fxn), epsilon) THEN [found |-> TRUE, x |-> xn]
       ELSE LET dfxn == dsigma_iv(c, xn)
            IN IF dfxn.m = 0
               THEN [found |-> FALSE, x |-> xn]
               ELSE [found |-> FALSE, x |-> FSub(xn, FDiv(fxn, dfxn))]

\* one iteration of the for loop of solve_newton at xn, for f = sigma_iv and
\* df = dsigma_iv with the coefficients c: xn is returned as the root, or
\* the loop goes on with the next xn
newton_iteration(c, xn, epsilon) ==
    LET fxn == sigma_iv(c, xn)
    IN IF FLess(FAbs(fxn), epsilon) THEN [found |-> TRUE, x |-> xn]
       ELSE LET dfxn == dsigma_iv(c, xn)
            IN IF dfxn.m = 0
               THEN [found |-> FALSE, x |-> FAdd(xn, FromRat(1, 1000))]
               ELSE [found |-> FALSE, x |-> FSub(xn, FDiv(fxn, dfxn))]

\* max((a, b, c)): the first of the greatest
Max3(a, b, c) ==
    LET ab == IF FLess(a, b) THEN b ELSE a
    IN IF FLess(ab, c) THEN c ELSE ab

\* b**2 - 4*a*c of solve_poly_deg2
Discriminant(a, b, c) == FSub(FPow(b, 2), FMul(FMul(FromInt(4), a), c))

\* solve_poly_deg2(a, b, c) for a discriminant that is not negative
solve_poly_deg2(a, b, c) ==
    LET sq_D == FSqrt(Discriminant(a, b, c))
    IN << FDiv(FAdd(FNeg(b), sq_D), FMul(FromInt(2), a)),
          FDiv(FSub(FNeg(b), sq_D), FMul(FromInt(2), a)) >>

\* sorted([p1, p2, p3], reverse=True)
SortedReverse(p1, p2, p3) ==
    LET hi == IF FLess(p1, p2) THEN p2 ELSE p1
        lo == IF FLess(p1, p2) THEN p1 ELSE p2
    IN IF FLess(hi, p3) THEN << p3, hi, lo >>
       ELSE IF FLess(lo, p3) THEN << hi, p3, lo >>
       ELSE << hi, lo, p3 >>

\* what a call produced: a value or an exception
Returned(v) == [raised |-> "none", value |-> v]
Raised(e) == [raised |-> e, value |-> << >>]
Pending == [raised |-> "pending", value |-> << >>]

\* solve_newton is in its for loop: iteration n is about to run at xn, with
\* the coefficients c = (A, B, C) the lambdas have captured
Running(c, xn, n) == [raised |-> "running", value |-> [c |-> c, xn |-> xn, n |-> n]]

\* get_principal_stresses(stress_dict) from the root p1 of solve_newton on,
\* with c = (A, B, C)
get_principal_stresses(c, p1) ==
    LET a  == FromInt(1)
        b  == FSub(p1, c.A)
        c2 == FAdd(FSub(FPow(p1, 2), FMul(p1, c.A)), c.B)
    IN IF Discriminant(a, b, c2).m < 0
       THEN \* math.sqrt of a negative number
            Raised("ValueError")
       ELSE LET x == solve_poly_deg2(a, b, c2)
            IN Returned(SortedReverse(p1, x[1], x[2]))

\* the stress components the solver is called with, in 1/64
SigmaVals == { Round(k, -6) : k \in {-6, 0, 3, 8} }
TauXY == { Round(k, -6) : k \in {0, 2, 5} }
TauXZ == { Round(k, -6) : k \in {0, 2} }
\* isotropic stress states whose components use every bit of the precision
IsoVals == { Round(k, -14) : k \in {17, 53, 67} }

\* diagonal stress states of magnitude 1 to 2 whose components use every bit
\* of the precision
DiagVals == { << Round(a, -8), Round(b, -8), Round(c, -8) >> :
                a \in {-389, 301}, b \in {257, 511}, c \in {-467, 509} }

Diagonal(d) == [sx |-> d[1], sy |-> d[2], sz |-> d[3], txy |-> Zero, txz |-> Zero, tyz |-> Zero]

Isotropic(s) == [sx |-> s, sy |-> s, sz |-> s, txy |-> Zero, txz |-> Zero, tyz |-> Zero]

Tensors ==
    [sx : SigmaVals, sy : SigmaVals, sz : SigmaVals,
     txy : TauXY, txz : TauXZ, tyz : {Zero}]
      \cup { Isotropic(s) : s \in IsoVals }
      \cup { Diagonal(d) : d \in DiagVals }

\* the session's variables while no session is open
SessionIdle ==
    /\ pc = "start"
    /\ exc = "none"
    /\ index = 0
    /\ data = EmptyDict
    /\ todo = << >>
    /\ dtype_dict = EmptyDict
    /\ record_dict = EmptyDict
    /\ rec_kwl = 0
    /\ error_flag = 0
    /\ pos = 1
    /\ record_len = sizeof_dtype
    /\ buf = ZeroRecord
    /\ cdb = [exists |-> TRUE, suffix |-> ".cdb"]
    /\ dbData = {}
    /\ more = 0
    /\ calls = {}
    /\ closeCalls = 0
    /\ afterClose = {}
    /\ diag = "none"
    /\ retTwo = {}
    /\ retOther = {}
    /\ returned = {}
    /\ readKeys = {}
    /\ last_get = NoGet
    /\ sawSkip = FALSE
    /\ mergedAfterSkip = FALSE

sessionVars == << pc, exc, index, data, todo, scanVars, envVars, histVars >>

\* no session scans side by side with another
NoReaders ==
    /\ cnode = ZeroRecord
    /\ readers = << >>

\* a client calls get_principal_stresses on a stress state
SolverInit ==
    /\ SessionIdle
    /\ NoReaders
    /\ arg \in [fn : {"get_principal_stresses"}, t : Tensors]
    /\ ret = Pending

\* get_principal_stresses up to the for loop of solve_newton, entered with
\* x0 = max((sx, sy, sz))
CallSolver ==
    /\ arg.fn = "get_principal_stresses"
    /\ ret = Pending
    /\ ret' = Running(Invariants(arg.t), Max3(arg.t.sx, arg.t.sy, arg.t.sz), 0)
    /\ UNCHANGED arg
    /\ UNCHANGED sessionVars
    /\ UNCHANGED parVars

\* one iteration of `for n in range(0, max_iter)`; when it returns the root,
\* get_principal_stresses runs to its end
NewtonIterate ==
    /\ ret.raised = "running"
    /\ ret.value.n < max_iter
    /\ LET it == newton_iteration(ret.value.c, ret.value.xn, FromRat(1, 100000))
       IN ret' = IF it.found THEN get_principal_stresses(ret.value.c, it.x)
                 ELSE Running(ret.value.c, it.x, ret.value.n + 1)
    /\ UNCHANGED arg
    /\ UNCHANGED sessionVars
    /\ UNCHANGED parVars

\* the for loop is exhausted
NewtonExhausted == ret.raised = "running" /\ ret.value.n >= max_iter

\* solve_newton returns None; `p1 - A` with p1 = None
\* raises TypeError
NewtonGivesUp ==
    /\ NewtonExhausted
    /\ ret' = Raised("TypeError")
    /\ UNCHANGED arg
    /\ UNCHANGED sessionVars
    /\ UNCHANGED parVars

SolverNext == CallSolver \/ NewtonIterate \/ NewtonGivesUp

SolverSpec == SolverInit /\ [][SolverNext]_vars

-----------------------------------------------------------------------------
(* The decoders on the fields of their ctypes records                       *)

\* what a decoder returns: None, or a dictionary with one entry
PyNone == [none |-> TRUE, dict |-> EmptyDict]
Dict(d) == [none |-> FALSE, dict |-> d]

\* list(x) of a ctypes array
List(x) == x

\* scale = 0.001
scale == FromRat(1, 1000)

\* variant: sigz is taken from the record's own field
bric_stress_atts_own_sigz(r) ==
    [sigx  |-> FMul(r.m_sigx, scale),
     sigy  |-> FMul(r.m_sigy, scale),
     sigz  |-> FMul(r.m_sigz, scale),
     tauxy |-> FMul(r.m_tvxy, scale),
     tauxz |-> FMul(r.m_tvxz, scale),
     tauyz |-> FMul(r.m_tvyz, scale)]

\* the attribute map read_bric_stresses builds from the record cbric_str
bric_stress_atts(r) ==
    [sigx  |-> FMul(r.m_sigx, scale),
     sigy  |-> FMul(r.m_sigy, scale),
     sigz  |-> FMul(r.m_sigy, scale),
     tauxy |-> FMul(r.m_tvxy, scale),
     tauxz |-> FMul(r.m_tvxz, scale),
     tauyz |-> FMul(r.m_tvyz, scale)]

\* SofReader.read_bric_stresses on the record r
decode_bric_stresses(r) ==
    IF r.m_nr <= 0 THEN PyNone ELSE Dict(r.m_nr :> bric_stress_atts(r))

\* variant: the first two node slots are compared
det_factor_first_two(m_node) ==
    IF m_node[1] = m_node[2] THEN FDiv(FromInt(4), FromInt(3)) ELSE FromInt(8)

\* read_brics: the volume multiplier for the Jacobian determinant
det_factor(m_node) ==
    IF m_node[Len(m_node)] = m_node[Len(m_node) - 1]
    THEN FDiv(FromInt(4), FromInt(3))
    ELSE FromInt(8)

\* SofReader.read_brics on the record r, self.data being d
decode_brics(r, d) ==
    IF r.m_nr <= 0 THEN PyNone
    ELSE Dict(r.m_nr :> [group  |-> get_group(r.m_nr, d),
                         nodes  |-> List(r.m_node),
                         type   |-> r.m_nra,
                         mat    |-> r.m_mat,
                         volume |-> FMul(r.m_det[1], det_factor(r.m_node))])

\* SofReader.read_nodes on the record r (the attribute fix is left out)
decode_nodes(r) ==
    IF r.m_nr <= 0 THEN PyNone ELSE Dict(r.m_nr :> [xyz |-> List(r.m_xyz)])

\* variant: node slots that hold 0 are dropped
spring_nodes_without_zero(m_node) == SelectSeq(m_node, LAMBDA n : n # 0)

\* read_springs: "nodes" : list(cspri.m_node)
spring_nodes(m_node) == List(m_node)

\* SofReader.read_springs on the record r, self.data being d
decode_springs(r, d) ==
    IF r.m_nr <= 0 THEN PyNone
    ELSE Dict(r.m_nr :> [group  |-> get_group(r.m_nr, d),
                         nodes  |-> spring_nodes(r.m_node),
                         normal |-> List(r.m_t),
                         k_long |-> r.m_cp,
                         k_trvs |-> r.m_cq,
                         k_rot  |-> r.m_cm])

\* single_record's loop over the results of the decoder, one per read:
\* `if record_data: dtype_dict.update(record_data)`
RECURSIVE merge_records(_, _)
merge_records(dtype, results) ==
    IF results = << >> THEN dtype
    ELSE merge_records(IF Head(results).none THEN dtype
                       ELSE Update(dtype, Head(results).dict),
                       Tail(results))

\* read_nodes and read_springs of read_geometry on a database that delivers
\* the records db.nodes and db.springs; a family without records has no data
\* and is not stored
geometry_of(db) ==
    LET nodes   == merge_records(EmptyDict,
                       [i \in 1..Len(db.nodes) |-> decode_nodes(db.nodes[i])])
        d1      == IF db.nodes = << >> THEN EmptyDict ELSE ("nodes" :> nodes)
        springs == merge_records(EmptyDict,
                       [i \in 1..Len(db.springs) |-> decode_springs(db.springs[i], d1)])
    IN IF db.springs = << >> THEN d1 ELSE SetItem(d1, "springs", springs)

\* the records the database may deliver
StressFields == { FromInt(0), FromInt(3) }
BricStressRecords ==
    [m_nr : {0, 1}, m_sigx : StressFields, m_sigy : StressFields,
     m_sigz : StressFields, m_tvxy : StressFields, m_tvxz : {FromInt(0)},
     m_tvyz : {FromInt(0)}]

\* 8 node slots: hexahedra, degenerate hexahedra and zero-filled tetrahedra
BricNodes ==
    { << 1, 2, 3, 4, 5 >> \o << a, b, c >> : a \in 6..8, b \in 6..8, c \in 6..8 }
      \cup { << 1, 2, 3, 0, 0, 4, 0, 0 >>, << 1, 1, 2, 3, 4, 5, 6, 7 >> }
BricRecords ==
    [m_nr : {0, 1, 2}, m_node : BricNodes, m_nra : {0}, m_mat : {1},
     m_det : { << FromInt(1) >>, << FromInt(3) >> }]

NodeRecords == [m_nr : {0, 1, 2}, m_xyz : { << 0, 0, 0 >> }]
SpringRecords ==
    [m_nr : {1}, m_node : { << 1, 0 >>, << 1, 2 >>, << 2, 3 >> },
     m_t : { << 0, 0, 1 >> }, m_cp : {1}, m_cq : {0}, m_cm : {0}]

\* the sequences over S of length at most n
RECURSIVE SeqUpTo(_, _)
SeqUpTo(S, n) ==
    IF n = 0 THEN { << >> }
    ELSE LET shorter == SeqUpTo(S, n - 1)
         IN shorter \cup { Append(q, x) : q \in shorter, x \in S }

\* at most this many records of one family in the database of read_geometry
MaxPerFamily == 2

Databases ==
    [nodes : SeqUpTo(NodeRecords, MaxPerFamily), springs : SeqUpTo(SpringRecords, 1)]

\* a decoder is applied to the record in its buffer, or the geometry of a
\* database is read
DecodeInit ==
    /\ SessionIdle
    /\ NoReaders
    /\ arg \in [fn : {"read_bric_stresses"}, rec : BricStressRecords]
            \cup [fn : {"read_brics"}, rec : BricRecords]
            \cup [fn : {"read_geometry"}, db : Databases]
    /\ ret = Pending

CallReadBricStresses ==
    /\ arg.fn = "read_bric_stresses"
    /\ ret = Pending
    /\ ret' = Returned(decode_bric_stresses(arg.rec))
    /\ UNCHANGED arg
    /\ UNCHANGED sessionVars
    /\ UNCHANGED parVars

CallReadBrics ==
    /\ arg.fn = "read_brics"
    /\ ret = Pending
    /\ ret' = Returned(decode_brics(arg.rec, data))
    /\ UNCHANGED arg
    /\ UNCHANGED sessionVars
    /\ UNCHANGED parVars

CallReadGeometry ==
    /\ arg.fn = "read_geometry"
    /\ ret = Pending
    /\ ret' = Returned(geometry_of(arg.db))
    /\ UNCHANGED arg
    /\ UNCHANGED sessionVars
    /\ UNCHANGED parVars

DecodeNext ==
    \/ CallReadBricStresses
    \/ CallReadBrics
    \/ CallReadGeometry

DecodeSpec == DecodeInit /\ [][DecodeNext]_vars

-----------------------------------------------------------------------------
(* file_manager.py: the Model written to a JSON file and read back          *)

\* Python values: int, float, str (a sequence of characters), list, dict
PyInt(n)   == [t |-> "int",   i |-> n, x |-> Zero, s |-> << >>, items |-> << >>]
PyFloat(f) == [t |-> "float", i |-> 0, x |-> f,    s |-> << >>, items |-> << >>]
PyStr(c)   == [t |-> "str",   i |-> 0, x |-> Zero, s |-> c,     items |-> << >>]
PyList(q)  == [t |-> "list",  i |-> 0, x |-> Zero, s |-> << >>, items |-> q]
PyDict(d)  == [t |-> "dict",  i |-> 0, x |-> Zero, s |-> << >>, items |-> d]

\* dictionary keys: an int or a str
KInt(n) == [t |-> "int", i |-> n, s |-> << >>]
KStr(c) == [t |-> "str", i |-> 0, s |-> c]

Digits == << "0", "1", "2", "3", "4", "5", "6", "7", "8", "9" >>
IsDigit(ch) == \E d \in 1..10 : Digits[d] = ch
DigitVal(ch) == (CHOOSE d \in 1..10 : Digits[d] = ch) - 1

\* str(n) for n >= 0
RECURSIVE NatToStr(_)
NatToStr(n) ==
    IF n < 10 THEN << Digits[n + 1] >>
    ELSE NatToStr(n \div 10) \o << Digits[(n % 10) + 1] >>

\* the key json.dump writes for an int key
IntToStr(n) == IF n < 0 THEN << "-" >> \o NatToStr(-n) ELSE NatToStr(n)

\* the value of a sequence of digits
RECURSIVE DigitsToNat(_)
DigitsToNat(c) ==
    IF c = << >> THEN 0
    ELSE 10 * DigitsToNat(SubSeq(c, 1, Len(c) - 1)) + DigitVal(c[Len(c)])

AllDigits(c) == c # << >> /\ \A j \in 1..Len(c) : IsDigit(c[j])

\* int(key) does not raise: an optional sign and decimal digits
ParsesAsInt(c) ==
    \/ AllDigits(c)
    \/ Len(c) > 1 /\ c[1] \in {"+", "-"} /\ AllDigits(Tail(c))

\* int(key)
ParseInt(c) ==
    IF c[1] = "-" THEN -DigitsToNat(Tail(c))
    ELSE IF c[1] = "+" THEN DigitsToNat(Tail(c))
    ELSE DigitsToNat(c)

\* json.dump turns every dictionary key into a string
dump_key(k) == IF k.t = "int" THEN KStr(IntToStr(k.i)) ELSE k

\* the dictionary d with its keys replaced by conv[key] and its values by
\* val[key]; of two keys that become equal one entry is kept
Rekey(d, conv, val) ==
    [k2 \in { conv[k] : k \in DOMAIN d } |->
        val[CHOOSE k \in DOMAIN d : conv[k] = k2]]

\* json.dump(cdb_dict, out_file) followed by json.load(in_file): the document
\* read back, whose objects have string keys
RECURSIVE json_dump(_)
json_dump(v) ==
    IF v.t = "dict"
    THEN PyDict(Rekey(v.items,
                      [k \in DOMAIN v.items |-> dump_key(k)],
                      [k \in DOMAIN v.items |-> json_dump(v.items[k])]))
    ELSE IF v.t = "list"
    THEN PyList([j \in 1..Len(v.items) |-> json_dump(v.items[j])])
    ELSE v

\* variant: the key is kept as json.load delivers it
convert_key_kept(k) == k

\* try: key = int(key) except: pass
convert_key(k) ==
    IF k.t = "str" /\ ParsesAsInt(k.s) THEN KInt(ParseInt(k.s)) ELSE k

\* _convert_dict_integers(json_data)
RECURSIVE convert_dict_integers(_)
convert_dict_integers(v) ==
    PyDict(Rekey(v.items,
                 [k \in DOMAIN v.items |-> convert_key(k)],
                 [k \in DOMAIN v.items |->
                    LET value == v.items[k]
                    IN IF value.t = "list"
                       THEN PyList([j \in 1..Len(value.items) |->
                                IF value.items[j].t = "dict"
                                THEN convert_dict_integers(value.items[j])
                                ELSE value.items[j]])
                       ELSE IF value.t = "dict"
                       THEN convert_dict_integers(value)
                       ELSE value]))

\* read_from_json(json_path) of the file write_to_json(cdb_dict, json_path)
\* has written
read_from_json(cdb_dict, json_path) ==
    IF json_path.suffix # ".json"
    THEN Raised("ValueError")
    ELSE Returned(convert_dict_integers(json_dump(cdb_dict)))

\* the Models the reader builds: entity kind -> id -> attribute map, and
\* for bric_stresses entity kind -> load case -> id -> attribute map
Chars(str) ==
    CASE str = "system" -> << "s", "y", "s", "t", "e", "m" >>
      [] str = "gdiv" -> << "g", "d", "i", "v" >>
      [] str = "nodes" -> << "n", "o", "d", "e", "s" >>
      [] str = "xyz" -> << "x", "y", "z" >>
      [] str = "fix" -> << "f", "i", "x" >>
      [] str = "bric_stresses" ->
            << "b", "r", "i", "c", "_", "s", "t", "r", "e", "s", "s", "e", "s" >>
      [] str = "sigx" -> << "s", "i", "g", "x" >>

NodeAtts ==
    { PyDict((KStr(Chars("xyz")) :> PyList(<< PyFloat(x), PyFloat(Zero), PyInt(0) >>))
             @@ (KStr(Chars("fix")) :> PyStr(<< " " >>))) : x \in { Zero, Round(3, -1) } }
StressAtts == { PyDict(KStr(Chars("sigx")) :> PyFloat(FMul(FromInt(3), scale))) }

\* the mappings from the ids of a nonempty subset of Ids to values in Atts
IdMaps(Ids, Atts) ==
    UNION { { PyDict([k \in { KInt(n) : n \in S } |-> f[k.i]]) : f \in [S -> Atts] }
            : S \in SUBSET Ids }

ModelIds == {1, 12, 305}
LoadCases == {0, 9998}

SystemMaps == { PyDict(KStr(Chars("gdiv")) :> PyInt(g)) : g \in {-2, 10} }
NodeMaps == IdMaps(ModelIds, NodeAtts)
StressMaps == IdMaps(LoadCases, IdMaps({12}, StressAtts))

\* a Model with a system mapping and, each or not, nodes and bric_stresses
Models ==
    { PyDict([k \in { KStr(Chars(name)) : name \in present } |->
                IF k.s = Chars("system") THEN sys
                ELSE IF k.s = Chars("nodes") THEN nodes
                ELSE stresses])
      : present \in { {"system"}, {"system", "nodes"},
                      {"system", "nodes", "bric_stresses"} },
        sys \in SystemMaps, nodes \in NodeMaps, stresses \in StressMaps }

JsonPaths == [suffix : {".json", ".txt"}]

\* a Model is written to a JSON file and read back
JsonInit ==
    /\ SessionIdle
    /\ NoReaders
    /\ arg \in [fn : {"read_from_json"}, cdb_dict : Models, json_path : JsonPaths]
    /\ ret = Pending

CallJson ==
    /\ arg.fn = "read_from_json"
    /\ ret = Pending
    /\ ret' = read_from_json(arg.cdb_dict, arg.json_path)
    /\ UNCHANGED arg
    /\ UNCHANGED sessionVars
    /\ UNCHANGED parVars

JsonNext == CallJson

JsonSpec == JsonInit /\ [][JsonNext]_vars

-----------------------------------------------------------------------------
(* Two sessions of one process scan the nodes of two database files.  The   *)
(* decorator argument cnode is evaluated once, when the class is defined:   *)
(* every session reads into and decodes from the same buffer.               *)

\* the largest number of node records of a database file
MaxFileLen == 2

SessionIds == {1, 2}

\* the node records of the two database files
FileRecords(s) ==
    IF s = 1 THEN [nr : {1, 2}, val : {0}] ELSE [nr : {0, 3}, val : {2}]

\* the node families of a file: at least one record (the key check passed)
Files(s) == UNION { [1..n -> FileRecords(s)] : n \in 1..MaxFileLen }

\* a reader at the head of the while loop of single_record
NewReader == [pc |-> "get", error_flag |-> 0, next |-> 1,
              dtype_dict |-> EmptyDict, data |-> EmptyDict]

ParallelInit ==
    /\ SessionIdle
    /\ arg \in [fn : {"read_nodes"}, files : [SessionIds -> UNION { Files(s) : s \in SessionIds }]]
    /\ \A s \in SessionIds : arg.files[s] \in Files(s)
    /\ ret = Pending
    /\ cnode = ZeroRecord
    /\ readers = [s \in SessionIds |-> NewReader]

\* the read primitive on the file of a session: the next record is written
\* into the buffer with status 0; past the last record the status is 2 and
\* the buffer is left as it is
get_cdb(file, next, buffer) ==
    IF next <= Len(file)
    THEN [status |-> 0, buffer |-> file[next]]
    ELSE [status |-> 2, buffer |-> buffer]

\* dtype_dict after `record_data = store_record(cdb)` and
\* `if record_data: dtype_dict.update(record_data)` on the buffer
merge_record(d, buffer) ==
    IF returns_none(read_nodes, buffer) THEN d
    ELSE Update(d, store_record(read_nodes, buffer, EmptyDict))

\* `error_flag.value = cdb.get_cdb(cdb.index, ..., byref(sof_dtype), ...)`
ParGet(s) ==
    /\ readers[s].pc = "get"
    /\ loop_continues(readers[s].error_flag)
    /\ LET got == get_cdb(arg.files[s], readers[s].next, cnode)
       IN /\ cnode' = got.buffer
          /\ readers' = [readers EXCEPT ![s].error_flag = got.status,
                                        ![s].next = IF got.status < 2 THEN @ + 1 ELSE @,
                                        ![s].pc = "store"]
    /\ UNCHANGED << arg, ret >>
    /\ UNCHANGED sessionVars

\* the rest of the iteration: decode the buffer and merge the result
ParStore(s) ==
    /\ readers[s].pc = "store"
    /\ readers' = [readers EXCEPT ![s].dtype_dict = merge_record(@, cnode),
                                  ![s].pc = IF loop_continues(readers[s].error_flag)
                                            THEN "get" ELSE "publish"]
    /\ UNCHANGED << arg, ret, cnode >>
    /\ UNCHANGED sessionVars

\* `cdb.data[record_identifier] = dtype_dict`
ParPublish(s) ==
    /\ readers[s].pc = "publish"
    /\ readers' = [readers EXCEPT ![s].data = SetItem(@, "nodes", readers[s].dtype_dict),
                                  ![s].pc = "done"]
    /\ UNCHANGED << arg, ret, cnode >>
    /\ UNCHANGED sessionVars

ParallelNext ==
    \E s \in SessionIds : ParGet(s) \/ ParStore(s) \/ ParPublish(s)

ParallelSpec == ParallelInit /\ [][ParallelNext]_vars

\* the nodes mapping a session builds from its file when no other session
\* runs: the loop of single_record from the given position and buffer
RECURSIVE single_record_alone(_, _, _, _)
single_record_alone(file, next, buffer, d) ==
    LET got == get_cdb(file, next, buffer)
        merged == merge_record(d, got.buffer)
    IN IF loop_continues(got.status)
       THEN single_record_alone(file, next + 1, got.buffer, merged)
       ELSE merged

ModelAlone(file) ==
    SetItem(EmptyDict, "nodes", single_record_alone(file, 1, ZeroRecord, EmptyDict))

-----------------------------------------------------------------------------
(* sof_read.py: the fixity bitcode of a node decoded into a token string    *)

\* the strings of the flag table, as sequences of characters
NoToken == << >>
Token(axis, dof) == << axis, dof >>
AllDofs == Token("P", "x") \o Token("P", "y") \o Token("P", "z")
             \o Token("M", "x") \o Token("M", "y") \o Token("M", "z")

Flag(bit, old, new) == [bit |-> bit, old |-> old, new |-> new]

\* variant: the flags 32 to 1 insert their token
fix_flags_tokens_inserted ==
    << Flag(1024, NoToken, NoToken), Flag(512, NoToken, NoToken),
       Flag(256, NoToken, NoToken), Flag(128, NoToken, NoToken),
       Flag(64, NoToken, AllDofs),
       Flag(32, NoToken, Token("M", "z")), Flag(16, NoToken, Token("M", "y")),
       Flag(8, NoToken, Token("M", "x")), Flag(4, NoToken, Token("P", "z")),
       Flag(2, NoToken, Token("P", "y")), Flag(1, NoToken, Token("P", "x")) >>

\* self._fix_flags
fix_flags ==
    << Flag(1024, NoToken, NoToken), Flag(512, NoToken, NoToken),
       Flag(256, NoToken, NoToken), Flag(128, NoToken, NoToken),
       Flag(64, NoToken, AllDofs),
       Flag(32, Token("M", "z"), NoToken), Flag(16, Token("M", "y"), NoToken),
       Flag(8, Token("M", "x"), NoToken), Flag(4, Token("P", "z"), NoToken),
       Flag(2, Token("P", "y"), NoToken), Flag(1, Token("P", "x"), NoToken) >>

\* str.replace with a nonempty old: the occurrences of old, found from the
\* left and not overlapping, are replaced by new
RECURSIVE replace_occurrences(_, _, _)
replace_occurrences(value, old, new) ==
    IF Len(value) < Len(old) THEN value
    ELSE IF SubSeq(value, 1, Len(old)) = old
         THEN new \o replace_occurrences(SubSeq(value, Len(old) + 1, Len(value)), old, new)
         ELSE << value[1] >> \o replace_occurrences(Tail(value), old, new)

\* str.replace with an empty old: new is put before every character and at
\* the end
RECURSIVE replace_empty(_, _)
replace_empty(value, new) ==
    IF value = << >> THEN new
    ELSE new \o << value[1] >> \o replace_empty(Tail(value), new)

\* str.replace(value, old, new)
str_replace(value, old, new) ==
    IF old = << >> THEN replace_empty(value, new)
    ELSE replace_occurrences(value, old, new)

\* variant: a flag equal to the remaining bitcode is not consumed
consumes_positive_remainder(bitcode, bit) == bitcode - bit > 0

\* `temp_bc = bitcode - fix[0]`, `if temp_bc >= 0`
consumes(bitcode, bit) == bitcode - bit >= 0

\* the for loop of _decode_node_fix from the i-th flag on; consumed collects
\* the flags whose branch was taken
RECURSIVE fix_loop(_, _, _, _)
fix_loop(bitcode, value, consumed, i) ==
    IF i > Len(fix_flags)
    THEN [value |-> value, bitcode |-> bitcode, consumed |-> consumed]
    ELSE LET fix == fix_flags[i]
         IN IF consumes(bitcode, fix.bit)
            THEN fix_loop(bitcode - fix.bit, str_replace(value, fix.old, fix.new),
                          consumed \cup {fix.bit}, i + 1)
            ELSE fix_loop(bitcode, value, consumed, i + 1)

\* SofReader._decode_node_fix(bitcode): the returned value, with the locals
\* it ends with
decode_node_fix(bitcode) == fix_loop(bitcode, << " " >>, {}, 1)

\* the bitcodes a node record may hold
Bitcodes == (-2..2050) \cup {2111, 2112, 4095, 4096, 65535}

FixInit ==
    /\ SessionIdle
    /\ NoReaders
    /\ arg \in [fn : {"_decode_node_fix"}, bitcode : Bitcodes]
    /\ ret = Pending

CallDecodeNodeFix ==
    /\ arg.fn = "_decode_node_fix"
    /\ ret = Pending
    /\ ret' = Returned(decode_node_fix(arg.bitcode))
    /\ UNCHANGED arg
    /\ UNCHANGED sessionVars
    /\ UNCHANGED parVars

FixNext == CallDecodeNodeFix

FixSpec == FixInit /\ [][FixNext]_vars

-----------------------------------------------------------------------------
(* Properties *)

\* the schema of the scan in progress
Current == Head(todo)
InScan == pc \in {"loop", "enum"}
SingleKey == Current.minor # NoneVal
\* the mapping the read loop in progress merges into
Acc == IF SingleKey THEN dtype_dict ELSE record_dict

\* a step that issues a read call: the read loop records it, or the decoder
\* raises right after it
ReadStep ==
    \/ last_get'.seq # 0 /\ last_get'.seq # last_get.seq
    \/ exc = "none" /\ exc' = "decode"

\* __enter__ raised
OpenFailed == exc \in {"invalid_input", "open_failed"}
\* __enter__ returned and the with statement has been left
Left == pc = "done" \/ (pc = "raised" /\ ~OpenFailed)

\* C1: the close primitive is called exactly once for every session whose
\* __enter__ returned, however the body ends (normally, by a decode error, by
\* an early exit), never before the body is left, and never when __enter__
\* raised.
C1_CloseExactlyOncePerOpen ==
    /\ closeCalls <= 1
    /\ Left => closeCalls = 1
    /\ ~Left => closeCalls = 0

\* C1 witness: a decode error has left the body and the session was closed once
C1_Witness == pc = "raised" /\ exc = "decode" /\ closeCalls = 1

\* C2: in single-key mode a read is issued from the read loop only while the
\* status of the previous read is below 2, a status below 2 is followed by
\* nothing but a further read (or the body being aborted), and each read that
\* delivers a record merges it under its declared id.
C2_ReadWhileStatusBelowTwo ==
    [][ (pc = "loop" /\ SingleKey) =>
          /\ ReadStep => error_flag < 2
          /\ error_flag < 2 => (ReadStep \/ exc' = "abort")
          /\ (ReadStep /\ pc' = "loop" /\ Current.kind # "system" /\ buf'.nr > 0) =>
                /\ buf'.nr \in DOMAIN dtype_dict'
                /\ dtype_dict'[buf'.nr].val = buf'.val
          /\ (ReadStep /\ pc' = "loop" /\ Current.kind = "system") =>
                dtype_dict' = [gdiv |-> buf'.val] ]_vars

\* C2 witness: a first read returned a status below 2, the read that followed
\* it returned 2 or more and is the last one
C2_Witness ==
    /\ pc = "loop" /\ SingleKey
    /\ last_get.seq = 2
    /\ error_flag >= 2
    /\ buf.nr > 0

\* C3: a read call is issued only for a key pair for which key_exists
\* returned 2, and never for a key pair for which it returned anything else.
C3_ReadOnlyAfterKeyExistsTwo ==
    /\ readKeys \subseteq retTwo
    /\ readKeys \cap retOther = {}

\* C3 witness: both scan modes have read, and some family was found without data
C3_Witness ==
    /\ \E key \in readKeys : key[1] = 310
    /\ \E key \in readKeys : key[1] # 310
    /\ retOther # {}

\* C4: a single-key family whose key_exists returned 0 or 1 is left in the
\* Model as an empty mapping under its entity-kind name.
C4_AbsentFamilyIsEmptyMapping ==
    \A rid \in returned : rid \in DOMAIN data /\ DOMAIN data[rid] = {}

\* the keys of a published or growing family mapping that holds ids
IdKeysPositive(d) == \A k \in DOMAIN d : k > 0

\* the record identifiers published by enumeration mode (secondary key -> mapping)
EnumRids == {"bric_stresses", "custom_enum"}

\* no id <= 0 in the Model nor in the mappings under construction
NoSentinelIds ==
    /\ \A rid \in (DOMAIN data) \ {"system"} :
         IF rid \in EnumRids
         THEN \A k \in DOMAIN data[rid] : IdKeysPositive(data[rid][k])
         ELSE IdKeysPositive(data[rid])
    /\ (InScan /\ SingleKey /\ Current.kind # "system") => IdKeysPositive(dtype_dict)
    /\ (InScan /\ ~SingleKey) =>
         /\ IdKeysPositive(record_dict)
         /\ \A k \in DOMAIN dtype_dict : IdKeysPositive(dtype_dict[k])

\* C5: a decoder that returns None (declared id <= 0) makes the scanner merge
\* nothing and stay in its loop; once a record was skipped the status of the
\* previous read alone still decides whether a further read is issued; no
\* node, element or stress mapping ever holds an id <= 0.
C5_SentinelSkippedNotMerged ==
    /\ []NoSentinelIds
    /\ [][ /\ (pc = "loop" /\ ReadStep /\ pc' = "loop" /\ returns_none(Current, buf')) =>
                /\ UNCHANGED << dtype_dict, record_dict >>
                /\ sawSkip'
           /\ (pc = "loop" /\ sawSkip) =>
                /\ ReadStep => error_flag < 2
                /\ error_flag < 2 => (ReadStep \/ exc' = "abort") ]_vars

\* C5 witness: a record with a positive id was merged by a read that followed
\* a read whose record was skipped
C5_Witness == pc = "loop" /\ mergedAfterSkip /\ buf.nr > 0 /\ buf.nr \in DOMAIN Acc

\* the secondary keys of the enumerated family that hold data in the database
DataKwl(major) == { key[2] : key \in { key \in dbData : key[1] = major } }

\* C6: the published result of read_bric_stresses has an entry for k exactly
\* when key_exists(310, k) is 2, for every k from 0 up to 9999.
C6_EnumerationCoversAllKeys ==
    "bric_stresses" \in DOMAIN data => DOMAIN data["bric_stresses"] = DataKwl(310)

\* C7 as stated: no external primitive is issued once close has been called
C7_NothingAfterClose == afterClose = {}

\* C7: once close has been called the session issues no key_exists, read or
\* close; the only primitive issued is the status query with which __exit__
\* validates the closed state, and the with statement is left.
C7_OnlyStatusAfterClose ==
    /\ afterClose \subseteq {"status"}
    /\ closeCalls > 0 => (afterClose = {"status"} /\ pc \in {"done", "raised"})

\* C7 witness: the session was closed and its status queried afterwards
C7_Witness == closeCalls = 1 /\ afterClose = {"status"} /\ "get" \in calls

\* C8: every read loop ends, whatever the external read primitive returns
C8_ScanTerminates == (pc = "loop") ~> (pc # "loop")

\* the position the first read of the scan in progress is given
InitialPosition == IF SingleKey THEN initial_pos(Current.position) ELSE 1

\* C9 as stated: every read call gets the scan's initial position and the
\* schema's record size
C9_PositionAndLengthReset ==
    (pc = "loop" /\ last_get.seq # 0) =>
        /\ last_get.pos = InitialPosition
        /\ last_get.len = sizeof_dtype

\* C9: every read call gets the schema's record size as length, even after the
\* primitive wrote another length back; the first read of a single-key scan
\* gets the schema's position (1 when none is given), every later read and
\* every read of an enumeration scan gets position 1.
C9_LengthResetPositionOne ==
    (pc = "loop" /\ last_get.seq # 0) =>
        /\ last_get.len = sizeof_dtype
        /\ last_get.pos = IF SingleKey /\ last_get.seq = 1
                          THEN initial_pos(Current.position) ELSE 1

\* C9 witness: a second read of a single-key scan whose schema has position 2
C9_Witness ==
    /\ pc = "loop" /\ SingleKey /\ Current.position = 2
    /\ last_get.seq = 2 /\ last_get.pos = 1

\* the init primitive was called and returned a handle <= 0
InitRejected == "init" \in calls /\ index <= 0

\* C10: opening is refused (the ValueError of a bad database) exactly when
\* init returned a handle <= 0, negative or zero alike; after a failed opening
\* no key_exists, read, status or close is issued; a negative handle is
\* reported as an error code, a zero handle as an invalid database.
C10_BadHandleIsFatal ==
    /\ (exc = "open_failed") <=> InitRejected
    /\ "init" \in calls => (OpenFailed <=> index <= 0)
    /\ OpenFailed => (pc = "raised" /\ calls \cap {"kexist", "get", "close", "status"} = {})
    /\ (InitRejected /\ index < 0) => diag = "error_code"
    /\ (InitRejected /\ index = 0) => diag = "invalid_database"

\* C10 witness: init returned a negative handle and __enter__ raised
C10_Witness == exc = "open_failed" /\ index < 0 /\ diag = "error_code"

\* C11: a session opened on a path that does not exist or does not end in
\* .cdb raises the invalid-input error, and only such a path does; when the
\* error is raised no external primitive has been called (no load, init,
\* status, key_exists, read or close) and the Model is empty.
C11_InvalidPathFailsFast ==
    /\ (pc # "start" /\ (~cdb.exists \/ cdb.suffix # ".cdb"))
          => (pc = "raised" /\ exc = "invalid_input")
    /\ exc = "invalid_input"
          => /\ ~cdb.exists \/ cdb.suffix # ".cdb"
             /\ calls = {} /\ closeCalls = 0 /\ afterClose = {}
             /\ readKeys = {} /\ retTwo = {} /\ retOther = {}
             /\ data = EmptyDict

\* an existing file with another suffix has been rejected
C11_Witness ==
    pc = "raised" /\ exc = "invalid_input" /\ cdb.exists /\ cdb.suffix = ".json"

\* the record identifiers of the element families
ElementRids == {"beams", "trusses", "cables", "springs", "quads", "brics"}

\* the element mappings the session holds: the published ones and the one
\* the scan in progress is building
ElementMaps ==
    { data[rid] : rid \in ElementRids \cap DOMAIN data }
      \cup (IF pc = "loop" /\ Current.kind = "element" THEN {dtype_dict} ELSE {})

SystemRead == "system" \in DOMAIN data /\ DOMAIN data["system"] # {}

C15_DecodeFailureIsolated ==
    (exc = "decode" /\ pc = "raised") => todo = << >>

\* the call of get_principal_stresses has returned or raised
SolverDone ==
    arg.fn = "get_principal_stresses" /\ ret.raised \notin {"pending", "running"}

\* C14 (as stated): when solve_newton yields no root, get_principal_stresses
\* does not crash with the exception of computing with the missing root: the
\* call ends without raising TypeError.
C14_NoRootIsReportedFailure ==
    [][NewtonExhausted => ret'.raised # "TypeError"]_vars

\* C20 (as stated): for an isotropic stress state (all normal components s,
\* all shear components 0) get_principal_stresses returns (s, s, s).
C20_IsotropicReturnsSSS ==
    (SolverDone /\ arg.t = Isotropic(arg.t.sx))
        => ret = Returned(<< arg.t.sx, arg.t.sx, arg.t.sx >>)

\* a decoder has been applied to the record arg.rec with a positive id
Decoded(fn) == arg.fn = fn /\ ret # Pending /\ arg.rec.m_nr > 0

\* C13 (as stated): the sigz stored for a Bric stress record is the record's
\* own sigma-z field times 0.001, and every other component comes from its
\* own field too.
C13_SigzFromOwnField ==
    Decoded("read_bric_stresses") =>
        LET r == arg.rec
            a == ret.value.dict[r.m_nr]
        IN /\ a.sigz = FMul(r.m_sigz, scale)
           /\ a.sigx = FMul(r.m_sigx, scale)
           /\ a.sigy = FMul(r.m_sigy, scale)
           /\ a.tauxy = FMul(r.m_tvxy, scale)
           /\ a.tauxz = FMul(r.m_tvxz, scale)
           /\ a.tauyz = FMul(r.m_tvyz, scale)

\* read_geometry has returned the Model of the database arg.db
GeometryRead == arg.fn = "read_geometry" /\ ret # Pending

\* C17 (as stated): after read_geometry every node id listed in the nodes
\* attribute of a decoded element is a key of the Model's nodes mapping.
C17_ElementNodesAreModelNodes ==
    GeometryRead =>
        \A rid \in DOMAIN ret.value \ {"nodes"} : \A id \in DOMAIN ret.value[rid] :
            \A i \in 1..Len(ret.value[rid][id].nodes) :
                /\ "nodes" \in DOMAIN ret.value
                /\ ret.value[rid][id].nodes[i] \in DOMAIN ret.value["nodes"]

\* C17 (amended): after read_geometry the nodes attribute of every decoded
\* element is the list of node slots of a record the database delivered
\* under that id, unchanged; a slot value is a key of the Model's nodes
\* mapping exactly when it is positive and the database delivered a node
\* record with that id.
C17_ElementNodesAreRecordSlots ==
    GeometryRead =>
        \A rid \in DOMAIN ret.value \ {"nodes"} : \A id \in DOMAIN ret.value[rid] :
            /\ \E i \in 1..Len(arg.db[rid]) :
                  /\ arg.db[rid][i].m_nr = id
                  /\ ret.value[rid][id].nodes = arg.db[rid][i].m_node
            /\ \A j \in 1..Len(ret.value[rid][id].nodes) :
                  LET n == ret.value[rid][id].nodes[j]
                  IN ("nodes" \in DOMAIN ret.value /\ n \in DOMAIN ret.value["nodes"])
                       <=> (n > 0 /\ \E k \in 1..Len(arg.db.nodes) : arg.db.nodes[k].m_nr = n)

\* a support spring has been decoded: its first node is in the Model, its
\* second slot holds 0, which is no key of the nodes mapping
C17_Witness ==
    /\ GeometryRead
    /\ "springs" \in DOMAIN ret.value /\ "nodes" \in DOMAIN ret.value
    /\ 1 \in DOMAIN ret.value["springs"]
    /\ ret.value["springs"][1].nodes = << 1, 0 >>
    /\ 1 \in DOMAIN ret.value["nodes"]
    /\ ~(0 \in DOMAIN ret.value["nodes"])

\* C18: for every Bric record with a positive id the volume is the first
\* determinant field times 4/3 exactly when the last two of the 8 node slots
\* are equal, and times 8 otherwise; 8 pairwise distinct node ids give 8.
C18_VolumeMultiplier ==
    Decoded("read_brics") =>
        LET r == arg.rec
            v == ret.value.dict[r.m_nr].volume
        IN /\ Len(r.m_node) = 8
           /\ r.m_node[8] = r.m_node[7] => v = FMul(r.m_det[1], FromRat(4, 3))
           /\ r.m_node[8] # r.m_node[7] => v = FMul(r.m_det[1], FromInt(8))
           /\ (\A i, j \in 1..8 : i # j => r.m_node[i] # r.m_node[j])
                 => v = FMul(r.m_det[1], FromInt(8))

\* a tetrahedron (last two slots equal) has been decoded with the factor 4/3
C18_Witness ==
    /\ Decoded("read_brics")
    /\ arg.rec.m_node = << 1, 2, 3, 0, 0, 4, 0, 0 >>
    /\ arg.rec.m_det = << FromInt(3) >>
    /\ ret.value.dict[arg.rec.m_nr].volume = FMul(FromInt(3), FromRat(4, 3))
    /\ ret.value.dict[arg.rec.m_nr].volume # FMul(FromInt(3), FromInt(8))

\* C19: a Model written with write_to_json and read back with read_from_json
\* from the same .json path equals the Model: the int keys come back as the
\* same ints at every depth, the other keys stay strings and the values are
\* unchanged (a path without the suffix .json is refused with ValueError).
C19_JsonRoundTrip ==
    (arg.fn = "read_from_json" /\ ret # Pending) =>
        IF arg.json_path.suffix = ".json"
        THEN ret = Returned(arg.cdb_dict)
        ELSE ret = Raised("ValueError")

\* a Model with several-digit ids and load cases below bric_stresses has
\* come back from its JSON file
C19_Witness ==
    /\ arg.fn = "read_from_json" /\ ret.raised = "none"
    /\ KStr(Chars("bric_stresses")) \in DOMAIN ret.value.items
    /\ KInt(9998) \in DOMAIN ret.value.items[KStr(Chars("bric_stresses"))].items
    /\ KInt(12) \in DOMAIN ret.value.items[KStr(Chars("bric_stresses"))].items[KInt(9998)].items
    /\ KInt(305) \in DOMAIN ret.value.items[KStr(Chars("nodes"))].items
    /\ json_dump(arg.cdb_dict) # arg.cdb_dict

\* C16: whatever the interleaving of the reads and decode steps of two
\* sessions on two database files, a session that has finished holds exactly
\* the Model it builds from its file when it runs alone.
C16_ParallelSessionsBuildOwnModels ==
    \A s \in DOMAIN readers :
        readers[s].pc = "done" => readers[s].data = ModelAlone(arg.files[s])

\* a stress state without shear and with three different normal components:
\* its eigenvalues are its normal components
DistinctDiagonal(t) ==
    /\ t.txy = Zero /\ t.txz = Zero /\ t.tyz = Zero
    /\ t.sx # t.sy /\ t.sx # t.sz /\ t.sy # t.sz

\* |x - y| < tol
Within(x, y, tol) == FLess(FAbs(FSub(x, y)), tol)

\* C21 (as stated): for a stress state with three distinct eigenvalues
\* get_principal_stresses returns three values, and they are the eigenvalues
\* in descending order within 1e-4.
C21_PrincipalStressesAreEigenvalues ==
    (SolverDone /\ DistinctDiagonal(arg.t)) =>
        /\ ret.raised = "none"
        /\ LET eigenvalues == SortedReverse(arg.t.sx, arg.t.sy, arg.t.sz)
           IN \A i \in 1..3 : Within(ret.value[i], eigenvalues[i], FromRat(1, 10000))

\* solve_newton is in its loop / the stopping criterion holds at its iterate
InNewton == ret.raised = "running"
Converged == FLess(FAbs(sigma_iv(ret.value.c, ret.value.xn)), FromRat(1, 100000))

\* C25: solve_newton evaluates f at most max_iter times; an iterate with a
\* zero derivative is not divided by but moved by 1e-3, and that pass counts
\* as one of the max_iter iterations; every other pass takes the Newton step;
\* the iterate is returned exactly when |f| < epsilon is observed at it, and
\* None is returned (which makes the caller raise TypeError) exactly when the
\* max_iter passes are used up.
C25_NewtonTerminatesAndReturnsObservedRoot ==
    /\ [](InNewton => ret.value.n <= max_iter)
    /\ [][ InNewton =>
            LET c  == ret.value.c
                xn == ret.value.xn
                n  == ret.value.n
            IN IF n >= max_iter THEN ret' = Raised("TypeError")
               ELSE IF Converged THEN ret' = get_principal_stresses(c, xn)
               ELSE /\ ret'.raised = "running"
                    /\ ret'.value.n = n + 1
                    /\ ret'.value.c = c
                    /\ ret'.value.xn =
                         IF dsigma_iv(c, xn).m = 0
                         THEN FAdd(xn, FromRat(1, 1000))
                         ELSE FSub(xn, FDiv(sigma_iv(c, xn), dsigma_iv(c, xn))) ]_vars

\* the first pass found a zero derivative at x0 and moved the iterate by 1e-3
C25_Witness ==
    /\ InNewton /\ ret.value.n = 1
    /\ dsigma_iv(ret.value.c, Max3(arg.t.sx, arg.t.sy, arg.t.sz)).m = 0
    /\ ret.value.xn = FAdd(Max3(arg.t.sx, arg.t.sy, arg.t.sz), FromRat(1, 1000))

\* _decode_node_fix has returned
FixDone == arg.fn = "_decode_node_fix" /\ ret # Pending

\* the bits of the flag table
FlagBits == { fix_flags[i].bit : i \in 1..Len(fix_flags) }

\* C26: the walk over the flag table consumes, for a bitcode from 0 to 2047,
\* exactly the flags whose bit is set in the bitcode and ends with remainder
\* 0; for a bitcode of 2048 or more it consumes all eleven flags and ends
\* with the positive remainder bitcode - 2047; for a negative bitcode it
\* consumes nothing.
C26_GreedyFlagWalk ==
    FixDone =>
        LET b == arg.bitcode
            r == ret.value
        IN /\ (b >= 0 /\ b <= 2047) =>
                /\ r.consumed = { f \in FlagBits : (b \div f) % 2 = 1 }
                /\ r.bitcode = 0
           /\ b >= 2048 => (r.consumed = FlagBits /\ r.bitcode = b - 2047 /\ r.bitcode > 0)
           /\ b < 0 => (r.consumed = {} /\ r.bitcode = b)

\* the bitcode 1024 + 64 + 4 + 1 has been decoded
C26_Witness ==
    FixDone /\ arg.bitcode = 1093 /\ ret.value.consumed = {1024, 64, 4, 1}

\* the tokens of AllDofs whose flag was not consumed, in the order of AllDofs
RemainingDofs(consumed) ==
    (IF 1 \in consumed THEN NoToken ELSE Token("P", "x"))
      \o (IF 2 \in consumed THEN NoToken ELSE Token("P", "y"))
      \o (IF 4 \in consumed THEN NoToken ELSE Token("P", "z"))
      \o (IF 8 \in consumed THEN NoToken ELSE Token("M", "x"))
      \o (IF 16 \in consumed THEN NoToken ELSE Token("M", "y"))
      \o (IF 32 \in consumed THEN NoToken ELSE Token("M", "z"))

\* C30: the token string is a function of the bitcode alone; when the walk
\* does not consume flag 64 it is the single space it started as, whatever
\* the flags 1 to 32 are; a token appears only when flag 64 is consumed (the
\* string is then the tokens of the flags 1 to 32 that were not consumed,
\* before and after the space).
C30_TokensOnlyWithFlag64 ==
    FixDone =>
        LET r == ret.value
        IN /\ 64 \notin r.consumed => r.value = << " " >>
           /\ r.value # << " " >> => 64 \in r.consumed
           /\ 64 \in r.consumed =>
                r.value = RemainingDofs(r.consumed) \o << " " >> \o RemainingDofs(r.consumed)

\* the bitcode 63 (every translation and rotation flag, not 64) has been
\* decoded into the single space
C30_Witness ==
    /\ FixDone /\ arg.bitcode = 63
    /\ ret.value.consumed = {32, 16, 8, 4, 2, 1}
    /\ ret.value.value = << " " >>

\* C22 (as stated): a read that returns status 2 or more delivers nothing:
\* the record left in the buffer by that final read is not decoded into the
\* mapping under construction (nor into the stored group divisor).
C22_FinalReadDeliversNothing ==
    [][(pc = "loop" /\ ReadStep /\ pc' = "loop" /\ error_flag' >= 2) =>
          UNCHANGED << dtype_dict, record_dict >>]_vars

\* C28 (as stated): once a System record has been read, decoding an element
\* with a positive id never raises, whatever divisor the System scan stored,
\* and every decoded element carries an integer group.
C28_GroupComputationIsTotal ==
    SystemRead =>
        /\ exc # "decode"
        /\ \A m \in ElementMaps : \A n \in DOMAIN m : m[n].group \in Int

\* C27: the Model changes only when a scan publishes: the step ends the scan,
\* assigns the entry of the scan's own record identifier, which had no entry
\* before, the mapping the scan has built, and leaves the entry of every
\* other record identifier as it was; during a scan the Model holds no entry
\* for the family being scanned.
C27_FamilyPublishedAtomically ==
    /\ [](InScan => Current.rid \notin DOMAIN data)
    /\ [][data' # data =>
            /\ InScan /\ pc' = "body"
            /\ Current.rid \notin DOMAIN data
            /\ DOMAIN data' = DOMAIN data \cup {Current.rid}
            /\ data'[Current.rid] = dtype_dict
            /\ \A rid \in DOMAIN data : data'[rid] = data[rid]]_vars

\* C27 witness: the node mapping and the beam mapping have both been
\* published and hold an entry under the same id
C27_Witness ==
    /\ pc = "body"
    /\ "nodes" \in DOMAIN data /\ "beams" \in DOMAIN data
    /\ DOMAIN data["nodes"] \cap DOMAIN data["beams"] # {}

\* the scan in progress collects records under their ids
CollectsIds == pc = "loop" /\ Current.kind # "system"

\* C29: a read that delivers a record with a positive id sets the entry of
\* that id to the attributes of this record alone and leaves every other
\* entry as it was, a read that delivers no such record changes nothing; so
\* the mapping has one entry per distinct positive id delivered, the last
\* record of an id wins, and the mapping never has more entries than reads
\* were issued.
C29_OneEntryPerIdLastWins ==
    /\ [](CollectsIds =>
            /\ IdKeysPositive(Acc)
            /\ last_get.seq = 0 => DOMAIN Acc = {}
            /\ last_get.seq = 1 => Cardinality(DOMAIN Acc) <= 1)
    /\ [][(CollectsIds /\ ReadStep /\ pc' = "loop") =>
            /\ Cardinality(DOMAIN Acc') <= Cardinality(DOMAIN Acc) + 1
            /\ IF buf'.nr > 0
               THEN /\ DOMAIN Acc' = DOMAIN Acc \cup {buf'.nr}
                    /\ Acc'[buf'.nr] = store_record(Current, buf', data)[buf'.nr]
                    /\ \A k \in DOMAIN Acc \ {buf'.nr} : Acc'[k] = Acc[k]
               ELSE Acc' = Acc]_vars

\* C29 witness: two reads of one scan both delivered a record with a
\* positive id and the mapping holds one entry, that of the second record
C29_Witness ==
    /\ CollectsIds /\ last_get.seq = 2 /\ ~sawSkip
    /\ buf.nr > 0
    /\ DOMAIN Acc = {buf.nr}
    /\ Acc[buf.nr].val = buf.val

\* C24 (as stated): when an element family of read_geometry is being read,
\* the System mapping and the Node mapping are published in the Model.
C24_SystemAndNodesPublishedFirst ==
    (pc = "loop" /\ Current.kind = "element") =>
        {"system", "nodes"} \subseteq DOMAIN data

\* the body of import_sof_cdb is about to start in a session that opened, and
\* the read primitive answers with a status below 2 finitely often
ImportStarts ==
    /\ pc = "body"
    /\ todo = read_geometry \o << read_bric_stresses >>
    /\ more # Endless

\* C23 (as stated): unless the body is interrupted from outside, such a
\* session eventually finishes every family scan and calls the close
\* primitive.
C23_EveryScanFinishesThenClose ==
    ImportStarts ~>
        ((pc = "done" /\ todo = << >> /\ closeCalls = 1) \/ exc = "abort")
====
